---- MODULE Spec2Model ----
(***************************************************************************)
(* A model of tornado_helpers: the request pipeline of                     *)
(* contrib/base/handlers.py (MongoAPIMixin, ModelAPIView) over the         *)
(* document manager of base/managers.py (MotorModelManager).               *)
(*                                                                         *)
(* Text is a sequence of one-character strings; a query-string or field    *)
(* key is a sequence of atoms, where "_" and "." are single characters and *)
(* every other atom is a run of letters.  Python values that the code      *)
(* passes around dynamically (None, int, str, list, ObjectId) are tagged   *)
(* records of one shape, so that any two can be compared.                  *)
(*                                                                         *)
(* URL routing is assumed to call patch/delete/retrieve with the captured  *)
(* identity bound to their object_id parameter.                            *)
(***************************************************************************)
EXTENDS Integers, Sequences, FiniteSets, TLC

\* ------------------------------------------------------------------ bounds
MaxDocs == 5
NumPermissions == 2
MaxRawLen == 3

\* page_size = 20 (class attribute of MongoAPIMixin)
page_size_default == 20

\* current_page=1 (default argument of paginate_response, never overridden)
paginate_default_current_page == 1

\* the requests in flight: two for the concurrent specification, of which
\* the sequential one runs the first alone
Requests == {1, 2}
SoloRequests == {1}

\* ------------------------------------------------------------ Python values
NoneV == [kind |-> "none", n |-> 0, ns |-> <<>>, s |-> <<>>, ss |-> <<>>]
IntV(i) == [kind |-> "int", n |-> i, ns |-> <<>>, s |-> <<>>, ss |-> <<>>]
IntsV(is) == [kind |-> "ints", n |-> 0, ns |-> is, s |-> <<>>, ss |-> <<>>]
StrV(t) == [kind |-> "str", n |-> 0, ns |-> <<>>, s |-> t, ss |-> <<>>]
StrsV(ts) == [kind |-> "strs", n |-> 0, ns |-> <<>>, s |-> <<>>, ss |-> ts]
\* a bson ObjectId; n is the identity it denotes
OidV(i) == [kind |-> "oid", n |-> i, ns |-> <<>>, s |-> <<>>, ss |-> <<>>]
\* an instance of a class that defines neither __bool__ nor __len__
\* (pymongo's DeleteResult / UpdateResult); n is its deleted / modified count
ObjectV(i) == [kind |-> "object", n |-> i, ns |-> <<>>, s |-> <<>>, ss |-> <<>>]

\* Python truth value testing, as `if x:` / `not x` apply it
Truthy(v) ==
    CASE v.kind = "none" -> FALSE
      [] v.kind = "int" -> v.n # 0
      [] v.kind = "ints" -> v.ns # <<>>
      [] v.kind = "str" -> v.s # <<>>
      [] v.kind = "strs" -> v.ss # <<>>
      [] OTHER -> TRUE

\* ---------------------------------------------------------------- dicts
EmptyDict == [k \in {} |-> NoneV]
DictSet(d, k, v) == [x \in (DOMAIN d) \cup {k} |-> IF x = k THEN v ELSE d[x]]
DictGet(d, k, default) == IF k \in DOMAIN d THEN d[k] ELSE default
DictWithout(d, ks) == [x \in (DOMAIN d) \ ks |-> d[x]]
DictUpdate(d, e) == [x \in (DOMAIN d) \cup (DOMAIN e) |-> IF x \in DOMAIN e THEN e[x] ELSE d[x]]

\* ----------------------------------------------------------------- keys
IdKey == <<"_", "id">>
PageKey == <<"page">>
PageSizeKey == <<"page", "_", "size">>
StatusKey == <<"status">>
CreatedKey == <<"created">>
BogusKey == <<"bogus">>

\* ------------------------------------------------------ text and integers
Digits == {"0", "1", "2", "3", "4", "5", "6", "7", "8", "9"}

DigitValue(c) ==
    CASE c = "0" -> 0 [] c = "1" -> 1 [] c = "2" -> 2 [] c = "3" -> 3
      [] c = "4" -> 4 [] c = "5" -> 5 [] c = "6" -> 6 [] c = "7" -> 7
      [] c = "8" -> 8 [] c = "9" -> 9

DigitChar(d) ==
    CASE d = 0 -> "0" [] d = 1 -> "1" [] d = 2 -> "2" [] d = 3 -> "3"
      [] d = 4 -> "4" [] d = 5 -> "5" [] d = 6 -> "6" [] d = 7 -> "7"
      [] d = 8 -> "8" [] d = 9 -> "9"

RECURSIVE DecValue(_)
DecValue(t) ==
    IF t = <<>> THEN 0
    ELSE 10 * DecValue(SubSeq(t, 1, Len(t) - 1)) + DigitValue(t[Len(t)])

Unsigned(t) == IF t # <<>> /\ t[1] \in {"-", "+"} THEN Tail(t) ELSE t

\* whether Python's int(t) succeeds, for text over digits, signs, letters and
\* commas (no whitespace or underscore digit separators occur in the inputs)
IntParses(t) ==
    /\ Unsigned(t) # <<>>
    /\ \A i \in 1..Len(Unsigned(t)) : Unsigned(t)[i] \in Digits

\* the value of int(t) when it succeeds
IntOf(t) ==
    IF t # <<>> /\ t[1] = "-" THEN 0 - DecValue(Unsigned(t)) ELSE DecValue(Unsigned(t))

\* str(n) for n >= 0
RECURSIVE IntToText(_)
IntToText(n) ==
    IF n < 10 THEN <<DigitChar(n)>> ELSE IntToText(n \div 10) \o <<DigitChar(n % 10)>>

\* str.split(','): the maximal comma-free runs, left to right
RECURSIVE split(_)
split(t) ==
    IF \A i \in 1..Len(t) : t[i] # ","
    THEN <<t>>
    ELSE LET i == CHOOSE j \in 1..Len(t) :
                      /\ t[j] = ","
                      /\ \A k \in 1..(j - 1) : t[k] # ","
         IN <<SubSeq(t, 1, i - 1)>> \o split(SubSeq(t, i + 1, Len(t)))

\* key.replace('__', '.'): non-overlapping occurrences, left to right
RECURSIVE replace_dunder(_)
replace_dunder(key) ==
    IF key = <<>> THEN <<>>
    ELSE IF Len(key) >= 2 /\ key[1] = "_" /\ key[2] = "_"
         THEN <<".">> \o replace_dunder(SubSeq(key, 3, Len(key)))
         ELSE <<key[1]>> \o replace_dunder(Tail(key))

\* [int(arg) for arg in splited_query_arg]: the list built so far, and whether
\* int() raised on the way
RECURSIVE int_list(_)
int_list(toks) ==
    IF toks = <<>> THEN [raised |-> FALSE, vals |-> <<>>]
    ELSE IF ~IntParses(toks[1]) THEN [raised |-> TRUE, vals |-> <<>>]
    ELSE LET rest == int_list(Tail(toks))
         IN IF rest.raised THEN rest
            ELSE [raised |-> FALSE, vals |-> <<IntOf(toks[1])>> \o rest.vals]

\* ------------------------------------------- extract_query_args (handlers)
\* the filter value built for one key from its list of values
\* (list_data.pop() takes the last value of a repeated key)
extract_entry_no_unwrap(values) ==
    LET toks == split(values[Len(values)])
        ints == int_list(toks)
    IN IF ~ints.raised THEN IntsV(ints.vals) ELSE StrsV(toks)

extract_entry(values) ==
    LET toks == split(values[Len(values)])
        ints == int_list(toks)
    IN IF ~ints.raised
       THEN IF Len(ints.vals) = 1 THEN IntV(ints.vals[1]) ELSE IntsV(ints.vals)
       ELSE IF Len(toks) = 1 THEN StrV(toks[1]) ELSE StrsV(toks)

\* the loop over request.query_arguments, in the dict's order
RECURSIVE extract_from(_, _)
extract_from(args, query_args) ==
    IF args = <<>> THEN query_args
    ELSE extract_from(Tail(args),
             DictSet(query_args, replace_dunder(args[1].key), extract_entry(args[1].values)))

extract_query_args(args) == extract_from(args, EmptyDict)

\* ------------------------------------------------------ manager helpers
\* bson.ObjectId(x): text in identity format (here: a non-empty digit run)
\* is parsed, an ObjectId is copied, anything else raises
ObjectIdRaises(v) ==
    CASE v.kind = "oid" -> FALSE
      [] v.kind = "str" -> ~(v.s # <<>> /\ \A i \in 1..Len(v.s) : v.s[i] \in Digits)
      [] OTHER -> TRUE

ObjectId(v) == IF v.kind = "oid" THEN v ELSE OidV(DecValue(v.s))

\* MotorModelManager._convert_id_field / _parse_query_filter
convert_id_field(query_filter) ==
    LET has_id_field == DictGet(query_filter, IdKey, NoneV)
    IN IF ~Truthy(has_id_field) THEN [raised |-> FALSE, filter |-> query_filter]
       ELSE IF ObjectIdRaises(has_id_field) THEN [raised |-> TRUE, filter |-> query_filter]
       ELSE [raised |-> FALSE, filter |-> DictSet(query_filter, IdKey, ObjectId(has_id_field))]

\* the store's equality match of a document against a filter
Matches(doc, query_filter) ==
    \A k \in DOMAIN query_filter : k \in DOMAIN doc /\ doc[k] = query_filter[k]

Matching(docs, query_filter) == {d \in docs : Matches(d, query_filter)}

\* cursor.sort([('_id', DESCENDING)]) over a set of documents
RECURSIVE SortedDescending(_)
SortedDescending(docs) ==
    IF docs = {} THEN <<>>
    ELSE LET top == CHOOSE d \in docs : \A e \in docs : e[IdKey].n <= d[IdKey].n
         IN <<top>> \o SortedDescending(docs \ {top})

\* what the cursor yields: sort, then skip, then limit (0 = no limit)
Window(rows, skip, limit) ==
    LET from == skip + 1
        upto == IF limit = 0 THEN Len(rows)
                ELSE IF skip + limit < Len(rows) THEN skip + limit ELSE Len(rows)
    IN SubSeq(rows, from, upto)

Abs(i) == IF i < 0 THEN 0 - i ELSE i

\* MotorModelManager._parse_json on one document: the identity becomes its
\* text form, excluded fields are already gone
parse_json_doc(doc) ==
    [k \in DOMAIN doc |-> IF doc[k].kind = "oid" THEN StrV(IntToText(doc[k].n)) ELSE doc[k]]

parse_json(rows) == [i \in 1..Len(rows) |-> parse_json_doc(rows[i])]

\* the projection {field: 0 for field in fields}
Project(doc, fields) == DictWithout(doc, fields)

\* -------------------------------------------------- the model class
\* The handler's `model` (a MongoModel subclass) is configuration: its fields,
\* its protected fields and the fields its "public" role hides.
ModelFields == {StatusKey, CreatedKey}
ProtectedFields == {CreatedKey}
PublicRoleFields == {CreatedKey}

\* model(body).validate(): a body naming a field the schema lacks is refused
ModelValidates(body) == DOMAIN body \subseteq ModelFields

\* ------------------------------------------------------------- paginator
\* contrib.base.pagination.Paginator
NumPages(count, size) == (count + size - 1) \div size

\* Paginator(...).page(number) raises EmptyPage
EmptyPage(number, size, count) ==
    number < 1 \/ size < 1 \/ number > NumPages(count, size)

has_next(number, size, count) == number * size < count
next_page_number(number) == number + 1
previous_page_number(number) == number - 1

\* ---------------------------------------------------------------- state
VARIABLES
    db,             \* the collection: a set of documents (dicts key -> value)
    nextId,         \* the identity the store generates next
    modelManager,   \* model.manager: the manager attached to the model class
    mgr,            \* each manager instance's skip and limit
    pc,             \* where each request's coroutine is suspended
    req,            \* each request as received
    hs,             \* each handler's fields: query_filter, page, page_size
    call,           \* each request's manager call in flight
    resp,           \* each request's response
    hist            \* what each request has done so far

vars == <<db, nextId, modelManager, mgr, pc, req, hs, call, resp, hist>>

\* a document of the collection
Doc(i, status) == [k \in {IdKey, StatusKey, CreatedKey} |->
                     IF k = IdKey THEN OidV(i) ELSE IF k = StatusKey THEN IntV(status) ELSE IntV(i)]

InitialDocs(n) == {Doc(i, 1 + (i % 2)) : i \in 1..n}

NoRequest == [method |-> "", id |-> <<>>, query |-> <<>>, body |-> EmptyDict,
              permOk |-> [i \in 1..NumPermissions |-> TRUE], authOk |-> TRUE, objOk |-> TRUE]
NoHandler == [query_filter |-> EmptyDict, page |-> NoneV, page_size |-> NoneV]
NoCall == [mgr |-> 0, filter |-> EmptyDict, fields |-> {}, many |-> FALSE, count |-> 0,
           skip |-> 0, limit |-> 0, data |-> EmptyDict]
NoResponse == [status |-> 0, src |-> "", idx |-> 0, count |-> 0,
               next |-> <<>>, previous |-> <<>>, results |-> <<>>]
NoHistory == [permsRun |-> 0, authRan |-> FALSE, objChecks |-> 0, dispatched |-> "none",
              dbCalls |-> <<>>, findRead |-> FALSE, usedSkip |-> NoneV, usedLimit |-> NoneV,
              interfered |-> FALSE, outcome |-> NoneV]
UnsetManager == [skip |-> NoneV, limit |-> NoneV]

InitCommon ==
    /\ nextId = MaxDocs + 1
    /\ modelManager = 0
    /\ mgr = [m \in Requests |-> UnsetManager]
    /\ pc = [r \in Requests |-> "new"]
    /\ req = [r \in Requests |-> NoRequest]
    /\ hs = [r \in Requests |-> NoHandler]
    /\ call = [r \in Requests |-> NoCall]
    /\ resp = [r \in Requests |-> NoResponse]
    /\ hist = [r \in Requests |-> NoHistory]

Init == InitCommon /\ \E n \in 0..MaxDocs : db = InitialDocs(n)

InitRace == InitCommon /\ db = InitialDocs(MaxDocs)

\* ------------------------------------------------------------ responses
\* `raise Finish()` at the end of json_response: the request ends there,
\* whatever the caller would have done next
no_raise_finish(continuation) == continuation

raise_finish(continuation) == "done"

\* json_response(data, status): the body written and the status set
Answer(status, src, idx) == [NoResponse EXCEPT !.status = status, !.src = src, !.idx = idx]

\* an exception no handler catches: the framework answers 500
Uncaught == Answer(500, "exception", 0)

\* a request that has assigned skip/limit and whose find has not read them yet
Exposed(q) == pc[q] \in {"perm", "auth", "dispatch", "count"} /\ ~hist[q].findRead

\* history: request r has just touched the shared model or its manager
Touch(r, h) ==
    [q \in Requests |->
        IF q # r /\ Exposed(q) THEN [h[q] EXCEPT !.interfered = TRUE] ELSE h[q]]

\* --------------------------------------------------------------- actions
\* MongoAPIMixin.__init__: a new manager is attached to the shared model class
Construct(r, inputs) ==
    /\ pc[r] = "new"
    /\ \E q \in inputs : req' = [req EXCEPT ![r] = q]
    /\ modelManager' = r
    /\ mgr' = [mgr EXCEPT ![r] = UnsetManager]
    /\ pc' = [pc EXCEPT ![r] = "constructed"]
    /\ hist' = Touch(r, hist)
    /\ UNCHANGED <<db, nextId, hs, call, resp>>

\* MongoAPIMixin.prepare up to its first await
prepare(r) ==
    /\ pc[r] = "constructed"
    /\ LET query_args == extract_query_args(req[r].query)
           page == DictGet(query_args, PageKey, IntV(0))
           popped == DictWithout(query_args, {PageKey})
           size == DictGet(popped, PageSizeKey, IntV(page_size_default))
       IN /\ hs' = [hs EXCEPT ![r] = [query_filter |-> DictWithout(popped, {PageSizeKey}),
                                      page |-> page, page_size |-> size]]
          /\ mgr' = [mgr EXCEPT ![modelManager] = [skip |-> page, limit |-> size]]
    /\ pc' = [pc EXCEPT ![r] = IF NumPermissions = 0 THEN "auth" ELSE "perm"]
    /\ hist' = Touch(r, hist)
    /\ UNCHANGED <<db, nextId, modelManager, req, call, resp>>

\* MongoAPIMixin.check_permissions: one has_permission has returned
check_permissions(r) ==
    /\ pc[r] = "perm"
    /\ LET i == hist[r].permsRun + 1
       IN /\ hist' = [hist EXCEPT ![r].permsRun = i]
          /\ IF req[r].permOk[i]
             THEN /\ pc' = [pc EXCEPT ![r] = IF i < NumPermissions THEN "perm" ELSE "auth"]
                  /\ resp' = resp
             ELSE /\ pc' = [pc EXCEPT ![r] = raise_finish("auth")]
                  /\ resp' = [resp EXCEPT ![r] = Answer(403, "permission", i)]
    /\ UNCHANGED <<db, nextId, modelManager, mgr, req, hs, call>>

\* MongoAPIMixin.check_authentication: authenticate has returned
check_authentication(r) ==
    /\ pc[r] = "auth"
    /\ hist' = [hist EXCEPT ![r].authRan = TRUE]
    /\ IF req[r].authOk
       THEN /\ pc' = [pc EXCEPT ![r] = "dispatch"]
            /\ resp' = resp
       ELSE /\ pc' = [pc EXCEPT ![r] = raise_finish("dispatch")]
            /\ resp' = [resp EXCEPT ![r] = Answer(401, "authentication", 0)]
    /\ UNCHANGED <<db, nextId, modelManager, mgr, req, hs, call>>

\* history: one more database call issued by request r
Issued(r, op) == [hist EXCEPT ![r].dbCalls = Append(@, op)]

\* MotorModelManager.find up to `await count_documents`, called through
\* get_queryset on whatever manager the model class holds at that moment
FindStart(r, query_filter, many, view) ==
    LET parsed == convert_id_field(query_filter)
    IN /\ hs' = [hs EXCEPT ![r].query_filter = parsed.filter]
       /\ IF parsed.raised
          THEN /\ pc' = [pc EXCEPT ![r] = "done"]
               /\ resp' = [resp EXCEPT ![r] = Uncaught]
               /\ hist' = [hist EXCEPT ![r].dispatched = view]
               /\ call' = call
          ELSE /\ pc' = [pc EXCEPT ![r] = "count"]
               /\ resp' = resp
               /\ hist' = [Issued(r, "count_documents") EXCEPT ![r].dispatched = view]
               /\ call' = [call EXCEPT ![r] = [NoCall EXCEPT !.mgr = modelManager,
                                                            !.filter = parsed.filter,
                                                            !.fields = PublicRoleFields,
                                                            !.many = many]]
       /\ UNCHANGED <<db, nextId, modelManager, mgr, req>>

\* ModelAPIView.get -> list: no lookup argument in the URL
list(r) ==
    /\ pc[r] = "dispatch"
    /\ req[r].method = "GET"
    /\ ~Truthy(StrV(req[r].id))
    /\ FindStart(r, hs[r].query_filter, TRUE, "list")

\* ModelAPIView.get -> retrieve: the lookup argument joins the filter
retrieve(r) ==
    /\ pc[r] = "dispatch"
    /\ req[r].method = "GET"
    /\ Truthy(StrV(req[r].id))
    /\ FindStart(r, DictSet(hs[r].query_filter, IdKey, StrV(req[r].id)), FALSE, "retrieve")

\* `if self.skip:` ... the skip the cursor is given
find_skip_class_default(m) == NoneV

find_skip(m) == mgr[m].skip

find_limit(m) == mgr[m].limit

\* cursor.skip(x) / cursor.limit(x) raise on a non-integer, skip on a negative
CursorRaises(skip, limit) ==
    \/ Truthy(skip) /\ (skip.kind # "int" \/ skip.n < 0)
    \/ Truthy(limit) /\ limit.kind # "int"

\* MotorModelManager.find: count_documents has returned; the cursor is built
\* from the manager's skip and limit as they are now
count_returned(r) ==
    /\ pc[r] = "count"
    /\ LET count == Cardinality(Matching(db, call[r].filter))
           skip == find_skip(call[r].mgr)
           limit == find_limit(call[r].mgr)
       IN IF ~call[r].many
          THEN /\ call' = [call EXCEPT ![r].count = count]
               /\ pc' = [pc EXCEPT ![r] = "find_one"]
               /\ hist' = Issued(r, "find_one")
               /\ resp' = resp
          ELSE IF CursorRaises(skip, limit)
          THEN /\ call' = [call EXCEPT ![r].count = count]
               /\ pc' = [pc EXCEPT ![r] = "done"]
               /\ hist' = [hist EXCEPT ![r].findRead = TRUE, ![r].usedSkip = skip,
                                       ![r].usedLimit = limit]
               /\ resp' = [resp EXCEPT ![r] = Uncaught]
          ELSE /\ call' = [call EXCEPT ![r].count = count,
                                       ![r].skip = IF Truthy(skip) THEN skip.n ELSE 0,
                                       ![r].limit = IF Truthy(limit) THEN Abs(limit.n) ELSE 0]
               /\ pc' = [pc EXCEPT ![r] = "to_list"]
               /\ hist' = [Issued(r, "find") EXCEPT ![r].findRead = TRUE, ![r].usedSkip = skip,
                                                    ![r].usedLimit = limit]
               /\ resp' = resp
    /\ UNCHANGED <<db, nextId, modelManager, mgr, req, hs>>

\* MongoAPIMixin.paginate_response(queryset): the page asked of the paginator
\* is current_page
paginate_response(data, count, size, current_page) ==
    IF EmptyPage(current_page, size, count)
    THEN [NoResponse EXCEPT !.status = 200, !.src = "page", !.count = count]
    ELSE [NoResponse EXCEPT
            !.status = 200, !.src = "page", !.count = count,
            !.next = IF has_next(current_page, size, count)
                     THEN <<next_page_number(current_page)>> ELSE <<>>,
            !.previous = IF current_page > 1
                         THEN <<previous_page_number(current_page)>> ELSE <<>>,
            !.results = data]

\* the rows a many-find returns for a call: projected, sorted, windowed, as JSON
FindRows(docs, c) ==
    LET rows == SortedDescending(Matching(docs, c.filter))
        cut == Window(rows, c.skip, c.limit)
    IN parse_json([i \in 1..Len(cut) |-> Project(cut[i], c.fields)])

\* cursor.to_list has returned; ModelAPIView.list paginates and answers
to_list_returned(r) ==
    /\ pc[r] = "to_list"
    /\ pc' = [pc EXCEPT ![r] = raise_finish("done")]
    /\ resp' = [resp EXCEPT ![r] =
                  IF hs[r].page_size.kind # "int" THEN Uncaught
                  ELSE paginate_response(FindRows(db, call[r]), call[r].count,
                                         hs[r].page_size.n, paginate_default_current_page)]
    /\ UNCHANGED <<db, nextId, modelManager, mgr, req, hs, call, hist>>

\* find_one has returned; ModelAPIView.retrieve answers the document or 404
find_one_returned(r) ==
    /\ pc[r] = "find_one"
    /\ LET found == Matching(db, call[r].filter)
       IN IF found = {}
          THEN resp' = [resp EXCEPT ![r] = Answer(404, "not_found", 0)]
          ELSE \E d \in found :
                 resp' = [resp EXCEPT ![r] =
                            [Answer(200, "document", 0) EXCEPT
                               !.results = <<parse_json_doc(Project(d, call[r].fields))>>]]
    /\ pc' = [pc EXCEPT ![r] = raise_finish("done")]
    /\ UNCHANGED <<db, nextId, modelManager, mgr, req, hs, call, hist>>

\* ModelAPIView.post up to `await insert_one` (get_data, then manager.create)
post(r) ==
    /\ pc[r] = "dispatch"
    /\ req[r].method = "POST"
    /\ IF ~ModelValidates(req[r].body)
       THEN /\ pc' = [pc EXCEPT ![r] = "done"]
            /\ resp' = [resp EXCEPT ![r] = Uncaught]
            /\ hist' = [hist EXCEPT ![r].dispatched = "post"]
            /\ call' = call
       ELSE /\ pc' = [pc EXCEPT ![r] = "insert"]
            /\ resp' = resp
            /\ hist' = [Issued(r, "insert_one") EXCEPT ![r].dispatched = "post"]
            /\ call' = [call EXCEPT ![r] = [NoCall EXCEPT !.mgr = modelManager,
                                              !.data = DictWithout(req[r].body, {IdKey})]]
    /\ UNCHANGED <<db, nextId, modelManager, mgr, req, hs>>

\* insert_one has returned: the generated identity is stamped on the answer
insert_returned(r) ==
    /\ pc[r] = "insert"
    /\ db' = db \cup {DictSet(call[r].data, IdKey, OidV(nextId))}
    /\ nextId' = nextId + 1
    /\ resp' = [resp EXCEPT ![r] =
                  [Answer(201, "document", 0) EXCEPT
                     !.results = <<DictSet(call[r].data, IdKey, StrV(IntToText(nextId)))>>]]
    /\ pc' = [pc EXCEPT ![r] = raise_finish("done")]
    /\ UNCHANGED <<modelManager, mgr, req, hs, call, hist>>

\* validate_body_data: all(field in model_fields ...) / any(field in protected ...)
has_right_fields_any(body) == \E field \in DOMAIN body : field \in ModelFields

has_right_fields(body) == \A field \in DOMAIN body : field \in ModelFields

has_protected_fields(body) == \E field \in DOMAIN body : field \in ProtectedFields

\* update_one, replaced by update_many when the payload {"$set": data} has
\* more than one key
update_operation == IF Cardinality({"$set"}) > 1 THEN "update_many" ELSE "update_one"

\* ModelAPIView.patch up to `await update_one`: validate_body_data, get_data,
\* then manager.update
patch(r) ==
    /\ pc[r] = "dispatch"
    /\ req[r].method = "PATCH"
    /\ LET body == req[r].body
           parsed == convert_id_field(DictSet(EmptyDict, IdKey, StrV(req[r].id)))
       IN IF ~has_right_fields(body)
          THEN /\ pc' = [pc EXCEPT ![r] = "done"]
               /\ resp' = [resp EXCEPT ![r] = Answer(400, "unknown_fields", 0)]
               /\ hist' = [hist EXCEPT ![r].dispatched = "patch"]
               /\ call' = call
          ELSE IF has_protected_fields(body)
          THEN /\ pc' = [pc EXCEPT ![r] = "done"]
               /\ resp' = [resp EXCEPT ![r] = Answer(400, "protected_fields", 0)]
               /\ hist' = [hist EXCEPT ![r].dispatched = "patch"]
               /\ call' = call
          ELSE IF ~ModelValidates(body) \/ parsed.raised
          THEN /\ pc' = [pc EXCEPT ![r] = "done"]
               /\ resp' = [resp EXCEPT ![r] = Uncaught]
               /\ hist' = [hist EXCEPT ![r].dispatched = "patch"]
               /\ call' = call
          ELSE /\ pc' = [pc EXCEPT ![r] = "update"]
               /\ resp' = resp
               /\ hist' = [Issued(r, update_operation) EXCEPT ![r].dispatched = "patch"]
               /\ call' = [call EXCEPT ![r] = [NoCall EXCEPT !.mgr = modelManager,
                                                 !.filter = parsed.filter, !.data = body]]
    /\ UNCHANGED <<db, nextId, modelManager, mgr, req, hs>>

\* update_one has returned its UpdateResult; `if not result` decides the answer
update_returned(r) ==
    /\ pc[r] = "update"
    /\ LET found == Matching(db, call[r].filter)
       IN \E target \in IF found = {} THEN {EmptyDict} ELSE found :
            LET changed == DictUpdate(target, call[r].data)
                outcome == ObjectV(IF found # {} /\ changed # target THEN 1 ELSE 0)
            IN /\ db' = IF found = {} THEN db ELSE (db \ {target}) \cup {changed}
               /\ hist' = [hist EXCEPT ![r].outcome = outcome]
               /\ resp' = [resp EXCEPT ![r] =
                             IF ~Truthy(outcome) THEN Answer(400, "not_changed", 0)
                             ELSE [Answer(200, "document", 0) EXCEPT !.results = <<call[r].data>>]]
    /\ pc' = [pc EXCEPT ![r] = raise_finish("done")]
    /\ UNCHANGED <<nextId, modelManager, mgr, req, hs, call>>

\* ModelAPIView.delete up to `await delete_one`
delete(r) ==
    /\ pc[r] = "dispatch"
    /\ req[r].method = "DELETE"
    /\ LET parsed == convert_id_field(DictSet(EmptyDict, IdKey, StrV(req[r].id)))
       IN IF parsed.raised
          THEN /\ pc' = [pc EXCEPT ![r] = "done"]
               /\ resp' = [resp EXCEPT ![r] = Uncaught]
               /\ hist' = [hist EXCEPT ![r].dispatched = "delete"]
               /\ call' = call
          ELSE /\ pc' = [pc EXCEPT ![r] = "delete"]
               /\ resp' = resp
               /\ hist' = [Issued(r, "delete_one") EXCEPT ![r].dispatched = "delete"]
               /\ call' = [call EXCEPT ![r] = [NoCall EXCEPT !.mgr = modelManager,
                                                 !.filter = parsed.filter]]
    /\ UNCHANGED <<db, nextId, modelManager, mgr, req, hs>>

\* delete_one has returned its DeleteResult; `if not result` decides the answer
delete_returned(r) ==
    /\ pc[r] = "delete"
    /\ LET found == Matching(db, call[r].filter)
       IN \E target \in IF found = {} THEN {EmptyDict} ELSE found :
            LET outcome == ObjectV(IF found = {} THEN 0 ELSE 1)
            IN /\ db' = db \ {target}
               /\ hist' = [hist EXCEPT ![r].outcome = outcome]
               /\ resp' = [resp EXCEPT ![r] =
                             IF ~Truthy(outcome) THEN Answer(400, "not_removed", 0)
                             ELSE [Answer(200, "deleted", 0) EXCEPT
                                     !.results = <<DictSet(EmptyDict, IdKey, StrV(req[r].id))>>]]
    /\ pc' = [pc EXCEPT ![r] = raise_finish("done")]
    /\ UNCHANGED <<nextId, modelManager, mgr, req, hs, call>>

\* ---------------------------------------------------------------- inputs
Arg(key, values) == [key |-> key, values |-> values]

\* every text over an alphabet, up to a length
Texts(alphabet, n) == UNION {[1..k -> alphabet] : k \in 0..n}

RawAlphabet == {"1", "a", ",", "-"}
ExampleRaws == {<<"1", ",", "2", ",", "3">>, <<"a", ",", "b">>, <<"5">>, <<"0", "1">>}
ParseRaws == Texts(RawAlphabet, MaxRawLen) \cup ExampleRaws
UserIdKey == <<"user", "_", "_", "id">>
ParseKeys == {StatusKey, UserIdKey, <<"a", "_", "_", "_", "b">>, PageKey, PageSizeKey}

\* one key with one value; a repeated key; two keys that become the same key
ParseQueries ==
    {<<Arg(k, <<v>>)>> : k \in ParseKeys, v \in ParseRaws}
    \cup {<<Arg(StatusKey, <<v, w>>)>> : v, w \in {<<"1">>, <<"a">>}}
    \cup {<<Arg(<<"a", "_", "_", "b">>, <<v>>), Arg(<<"a", ".", "b">>, <<w>>)>> :
             v, w \in {<<"1">>, <<"a">>}}
    \cup {<<Arg(<<"a", ".", "b">>, <<v>>), Arg(<<"a", "_", "_", "b">>, <<w>>)>> :
             v, w \in {<<"1">>, <<"a">>}}

PageRaws == {<<"0">>, <<"1">>, <<"2">>, <<"3">>, <<"4">>, <<"9">>, <<"-", "1">>}
PageSizeRaws == {<<"1">>, <<"2">>}
Optional(key, raws) == {<<>>} \cup {<<Arg(key, <<v>>)>> : v \in raws}

PageQueries ==
    {p \o s \o f : p \in Optional(PageKey, PageRaws), s \in Optional(PageSizeKey, PageSizeRaws),
                   f \in Optional(StatusKey, {<<"1">>})}

Verdicts == [1..NumPermissions -> BOOLEAN]
AllPass == [i \in 1..NumPermissions |-> TRUE]
UrlIds == {<<"1">>, <<"2">>, <<"x">>}

Bodies == {DictSet(EmptyDict, StatusKey, IntV(2)),
           DictSet(EmptyDict, CreatedKey, IntV(9)),
           DictSet(EmptyDict, BogusKey, IntV(1)),
           DictSet(DictSet(EmptyDict, StatusKey, IntV(2)), BogusKey, IntV(1))}

Request(method, id, query, body, permOk, authOk, objOk) ==
    [method |-> method, id |-> id, query |-> query, body |-> body,
     permOk |-> permOk, authOk |-> authOk, objOk |-> objOk]

ListRequests ==
    {Request("GET", <<>>, q, EmptyDict, p, a, TRUE) : q \in PageQueries, p \in Verdicts, a \in BOOLEAN}
    \cup {Request("GET", <<>>, q, EmptyDict, AllPass, TRUE, TRUE) : q \in ParseQueries}

ObjectRequests ==
    {Request(m, id, <<>>, EmptyDict, p, a, o) :
        m \in {"GET", "DELETE"}, id \in UrlIds, p \in Verdicts, a \in BOOLEAN, o \in BOOLEAN}
    \cup {Request("PATCH", id, <<>>, b, p, a, o) :
        id \in UrlIds, b \in Bodies, p \in Verdicts, a \in BOOLEAN, o \in BOOLEAN}

PostRequests ==
    {Request("POST", <<>>, <<>>, b, p, a, TRUE) : b \in Bodies, p \in Verdicts, a \in BOOLEAN}

AllRequests == ListRequests \cup ObjectRequests \cup PostRequests

\* list requests that differ in their pagination only
RaceRequests ==
    {Request("GET", <<>>, p \o s, EmptyDict, AllPass, TRUE, TRUE) :
        p \in Optional(PageKey, {<<"1">>, <<"2">>}), s \in Optional(PageSizeKey, {<<"2">>})}

\* ------------------------------------------------------- specifications
\* one request at a time
Next ==
    \E r \in SoloRequests :
        \/ Construct(r, AllRequests)
        \/ prepare(r)
        \/ check_permissions(r)
        \/ check_authentication(r)
        \/ list(r)
        \/ retrieve(r)
        \/ count_returned(r)
        \/ to_list_returned(r)
        \/ find_one_returned(r)
        \/ post(r)
        \/ insert_returned(r)
        \/ patch(r)
        \/ update_returned(r)
        \/ delete(r)
        \/ delete_returned(r)

Spec == Init /\ [][Next]_vars

\* list requests on the same model, interleaved at their awaits
NextRace ==
    \E r \in Requests :
        \/ Construct(r, RaceRequests)
        \/ prepare(r)
        \/ check_permissions(r)
        \/ check_authentication(r)
        \/ list(r)
        \/ count_returned(r)
        \/ to_list_returned(r)

SpecRace == InitRace /\ [][NextRace]_vars

\* ---------------------------------------------------------------- claims
Prepared(r) == pc[r] \notin {"new", "constructed"}
Finished(r) == pc[r] = "done"
SingleObjectViews == {"retrieve", "patch", "delete"}

\* the first permission class whose check refuses the request, or 0
FirstRefusing(permOk) ==
    IF \A i \in DOMAIN permOk : permOk[i] THEN 0
    ELSE CHOOSE i \in DOMAIN permOk : ~permOk[i] /\ \A j \in 1..(i - 1) : permOk[j]

\* C1: authentication runs before the permission checks: a request whose
\* authenticator refuses it ends with 401 and the authenticator's message,
\* whatever the permission checks would say, and no permission check has run
\* for it; no permission check runs before the authenticator has.
C1_AuthenticationFirst ==
    \A r \in Requests :
        /\ (Finished(r) /\ ~req[r].authOk) =>
              /\ resp[r].status = 401
              /\ resp[r].src = "authentication"
              /\ hist[r].permsRun = 0
        /\ hist[r].permsRun > 0 => hist[r].authRan

\* C2: a failed check of prepare ends the request at that check: the answer
\* is 403 with the first refusing permission class's message (or 401 from the
\* authenticator), no later check runs, no view is dispatched and no database
\* call is issued.
C2_FailedCheckEndsRequest ==
    \A r \in Requests :
        LET f == FirstRefusing(req[r].permOk)
        IN /\ (Prepared(r) /\ f # 0) =>
                 /\ hist[r].permsRun <= f
                 /\ ~hist[r].authRan
                 /\ hist[r].dispatched = "none"
                 /\ hist[r].dbCalls = <<>>
                 /\ hist[r].permsRun = f =>
                       /\ Finished(r)
                       /\ resp[r] = Answer(403, "permission", f)
           /\ (Prepared(r) /\ f = 0 /\ ~req[r].authOk) =>
                 /\ hist[r].dispatched = "none"
                 /\ hist[r].dbCalls = <<>>
                 /\ hist[r].authRan =>
                       /\ Finished(r)
                       /\ resp[r] = Answer(401, "authentication", 0)

\* a request refused by the second permission class after the first let it pass
C2_Witness ==
    \E r \in Requests :
        /\ Finished(r)
        /\ req[r].permOk[1]
        /\ ~req[r].permOk[2]
        /\ hist[r].permsRun = 2
        /\ resp[r].status = 403

\* C3: DELETE answers 200 only when delete_one removed a document; when it
\* removed none the answer is 400.
C3_DeleteOfNothingIs400 ==
    \A r \in Requests :
        (Finished(r) /\ hist[r].dispatched = "delete" /\ hist[r].outcome.kind = "object") =>
            /\ resp[r].status = 200 => hist[r].outcome.n = 1
            /\ hist[r].outcome.n = 0 => resp[r].status = 400

\* a list request that passed the checks, with integer page p and page size s
PagedList(r) ==
    /\ Finished(r)
    /\ hist[r].dispatched = "list"
    /\ \E i \in 1..Len(req[r].query) : req[r].query[i].key = PageKey
    /\ hs[r].page.kind = "int"
    /\ hs[r].page_size.kind = "int"
    /\ hs[r].page_size.n >= 1

InRange(r) ==
    /\ 1 <= hs[r].page.n
    /\ hs[r].page.n <= NumPages(call[r].count, hs[r].page_size.n)

\* C4: for a list request with page p in 1..ceil(count/page_size), `next` is
\* the link to page p+1 iff p*page_size < count and null otherwise, and
\* `previous` is the link to page p-1 iff p > 1 and null otherwise.
C4_NextAndPreviousFollowPage ==
    \A r \in Requests :
        (PagedList(r) /\ InRange(r)) =>
            LET p == hs[r].page.n
                s == hs[r].page_size.n
            IN /\ resp[r].status = 200
               /\ resp[r].next = IF p * s < resp[r].count THEN <<p + 1>> ELSE <<>>
               /\ resp[r].previous = IF p > 1 THEN <<p - 1>> ELSE <<>>

\* C5: a list request whose page is out of range (0, negative, or beyond the
\* last page) is answered 200 with empty results.
C5_OutOfRangePageIsEmpty ==
    \A r \in Requests :
        (PagedList(r) /\ ~InRange(r)) =>
            /\ resp[r].status = 200
            /\ resp[r].results = <<>>

BodyRefused(body) ==
    \E field \in DOMAIN body : field \notin ModelFields \/ field \in ProtectedFields

\* C6: a PATCH naming a field the model lacks, or a protected one, never
\* reaches the manager's update (no database call is issued for it), and the
\* patch view answers it 400.
C6_RefusedPatchNeverUpdates ==
    \A r \in Requests :
        (Prepared(r) /\ req[r].method = "PATCH" /\ BodyRefused(req[r].body)) =>
            /\ pc[r] # "update"
            /\ hist[r].dbCalls = <<>>
            /\ (Finished(r) /\ hist[r].dispatched = "patch") => resp[r].status = 400

C6_Witness ==
    \E r \in Requests :
        /\ Finished(r)
        /\ hist[r].dispatched = "patch"
        /\ DOMAIN req[r].body = {StatusKey, BogusKey}
        /\ resp[r].status = 400

\* C7: every single-object view runs the object-level permission checks
\* before it answers 200, and answers 403 when one of them refuses.
C7_ObjectPermissionsChecked ==
    \A r \in Requests :
        (Finished(r) /\ hist[r].dispatched \in SingleObjectViews) =>
            /\ resp[r].status = 200 => hist[r].objChecks >= 1
            /\ ~req[r].objOk => resp[r].status # 200

\* the position of the k-th comma of a text
NthComma(raw, k) ==
    CHOOSE j \in 1..Len(raw) :
        raw[j] = "," /\ Cardinality({i \in 1..(j - 1) : raw[i] = ","}) = k - 1

\* the elements of a comma-separated text: what lies between its commas
Elements(raw) ==
    LET commas == Cardinality({i \in 1..Len(raw) : raw[i] = ","})
    IN [k \in 1..(commas + 1) |->
          SubSeq(raw, IF k = 1 THEN 1 ELSE NthComma(raw, k - 1) + 1,
                      IF k = commas + 1 THEN Len(raw) ELSE NthComma(raw, k) - 1)]

\* the filter entry the claim gives a raw value
ExpectedEntry(raw) ==
    LET e == Elements(raw)
    IN IF \A k \in 1..Len(e) : IntParses(e[k])
       THEN IF Len(e) = 1 THEN IntV(IntOf(e[1])) ELSE IntsV([k \in 1..Len(e) |-> IntOf(e[k])])
       ELSE IF Len(e) = 1 THEN StrV(e[1]) ELSE StrsV(e)

\* what prepare left of a parsed key: in the filter, or popped into page / page_size
ParsedEntry(r, key) ==
    IF key = PageKey THEN hs[r].page
    ELSE IF key = PageSizeKey THEN hs[r].page_size
    ELSE DictGet(hs[r].query_filter, key, NoneV)

\* C8: extract_query_args turns `__` in a key into `.`, splits the value on
\* commas, and keeps the integer (or list of integers) when every element
\* parses as one, otherwise the original string (or list of strings); after
\* prepare neither the handler's filter nor the filter a manager call carries
\* has the keys page or page_size.
C8_QueryArgsBecomeFilter ==
    \A r \in Requests :
        LET args == req[r].query
            keys == {replace_dunder(args[i].key) : i \in 1..Len(args)}
        IN /\ pc[r] \in {"perm", "auth", "dispatch"} =>
                /\ DOMAIN hs[r].query_filter = keys \ {PageKey, PageSizeKey}
                /\ \A i \in 1..Len(args) :
                      (\A j \in (i + 1)..Len(args) :
                            replace_dunder(args[j].key) # replace_dunder(args[i].key))
                      => ParsedEntry(r, replace_dunder(args[i].key))
                            = ExpectedEntry(args[i].values[Len(args[i].values)])
                /\ \A k \in keys : \A i \in 1..(Len(k) - 1) : ~(k[i] = "_" /\ k[i + 1] = "_")
                /\ \A i \in 1..Len(args) :
                      args[i].key = UserIdKey => <<"user", ".", "id">> \in DOMAIN hs[r].query_filter
                /\ args = <<Arg(StatusKey, <<(<<"1", ",", "2", ",", "3">>)>>)>>
                      => hs[r].query_filter[StatusKey] = IntsV(<<1, 2, 3>>)
                /\ args = <<Arg(StatusKey, <<(<<"a", ",", "b">>)>>)>>
                      => hs[r].query_filter[StatusKey] = StrsV(<<(<<"a">>), (<<"b">>)>>)
                /\ PageKey \notin keys => hs[r].page = IntV(0)
                /\ PageSizeKey \notin keys => hs[r].page_size = IntV(page_size_default)
           /\ Prepared(r) =>
                /\ PageKey \notin DOMAIN hs[r].query_filter
                /\ PageSizeKey \notin DOMAIN hs[r].query_filter
                /\ PageKey \notin DOMAIN call[r].filter
                /\ PageSizeKey \notin DOMAIN call[r].filter

\* user__id=5 has become {"user.id": 5} and has reached the manager
C8_Witness ==
    \E r \in Requests :
        /\ req[r].query = <<Arg(UserIdKey, <<(<<"5">>)>>)>>
        /\ pc[r] = "count"
        /\ call[r].filter = DictSet(EmptyDict, <<"user", ".", "id">>, IntV(5))

\* the find of request r read a skip or a limit other than the ones r's own
\* prepare took from its query string
ForeignPagination(r) ==
    /\ hist[r].findRead
    /\ hist[r].usedSkip # hs[r].page \/ hist[r].usedLimit # hs[r].page_size

\* C9: of two interleaved requests on one model, one's find can run with a
\* skip/limit that its own query string did not give (the witness); it does so
\* only when the other request's constructor or prepare touched the shared
\* model.manager between this request's prepare and its find.
C9_ForeignPaginationOnlyByInterference ==
    \A r \in Requests : ForeignPagination(r) => hist[r].interfered

C9_Witness ==
    \E r, q \in Requests :
        /\ r # q
        /\ ForeignPagination(r)
        /\ hs[r].page # hs[q].page
        /\ hist[r].usedSkip = hs[q].page

\* the rows of page p of size s: the sorted matching documents after the
\* first (p-1)*s, at most s of them
RequestedWindow(r) ==
    LET rows == SortedDescending(Matching(db, call[r].filter))
        cut == Window(rows, (hs[r].page.n - 1) * hs[r].page_size.n, hs[r].page_size.n)
    IN parse_json([i \in 1..Len(cut) |-> Project(cut[i], call[r].fields)])

\* C10: a list request with page p >= 1 and page_size s >= 1, run alone, hands
\* the paginator exactly the rows of page p: the query skips (p-1)*s documents
\* and returns at most s.
C10_RowsAreTheRequestedPage ==
    \A r \in Requests :
        (PagedList(r) /\ hs[r].page.n >= 1 /\ resp[r].status = 200) =>
            /\ Len(resp[r].results) <= hs[r].page_size.n
            /\ InRange(r) => resp[r].results = RequestedWindow(r)

====
